---- MODULE Spec2Model ----
(***************************************************************************)
(* Model of the dot-map pipeline of src/components/InteractiveDottedMap.jsx *)
(* (boundary-dataset loader, color registry, rasterizer, point classifier,  *)
(* dot-grid generator and the component's effect lifecycle).                *)
(***************************************************************************)
EXTENDS Integers, Sequences, FiniteSets

VARIABLES
    cachedGeoJSON,   \* module-level cache (line 6)
    geoJSONPromise,  \* module-level promise (line 7)
    fetchLog,        \* one entry per fetch() call issued, with its settled outcome
    runs,            \* one record per invocation of loadAndProcessMap
    comp,            \* the component instance: props and React state
    colorToIdMap,    \* registry under construction (forEach loop, lines 250-270)
    countryCount,    \* number of features the forEach loop has processed
    sample,          \* raster and point presented to the classifier
    detected,        \* what detectCountryAtPoint returned for sample
    scene,           \* synthetic raster scene (painted rectangles)
    generatedDots,   \* dot list generated for scene
    dynamicSpeciesCount, \* biodiversityData.js: category -> code -> count
    intensity,       \* the call of getColorIntensity in progress and its result
    rendered,        \* a rendered map: its props and state during interaction
    clicks,          \* the calls of onCountryClick, in order
    entryFeature,    \* a feature the forEach loop of lines 250-286 is given
    entryCode,       \* the countryCode the loop stored for entryFeature
    bucketCounts,    \* a count and the least and largest count of its dataset
    bucketIndex,     \* the palette index the colorizer computed for bucketCounts
    calls            \* the calls of the exported functions of biodiversityData.js

loaderVars == <<cachedGeoJSON, geoJSONPromise, fetchLog, runs, comp>>
registryVars == <<colorToIdMap, countryCount>>
classifierVars == <<sample, detected>>
sceneVars == <<scene, generatedDots>>
colorizerVars == <<dynamicSpeciesCount, intensity>>
interactionVars == <<rendered, clicks>>
resolverVars == <<entryFeature, entryCode>>
paletteVars == <<bucketCounts, bucketIndex>>
storeVars == <<calls>>
vars == <<cachedGeoJSON, geoJSONPromise, fetchLog, runs, comp,
          colorToIdMap, countryCount, sample, detected, scene, generatedDots,
          dynamicSpeciesCount, intensity, rendered, clicks,
          entryFeature, entryCode, bucketCounts, bucketIndex, calls>>

----------------------------------------------------------------------------
(* Bounds *)

MaxFeatures == 300      \* largest dataset the registry loop is run on
MaxRuns == 3            \* pipeline runs started in one behaviour
MaxSide == 2            \* largest square side of a scene, in units of the spacing
SceneStep == 25         \* squares of a scene are placed at multiples of this
SampleSide == 3         \* side of the raster presented to the classifier
SampleFeatures == 7     \* features registered when the classifier is exercised

----------------------------------------------------------------------------
(* JavaScript values *)

null == 0               \* countryId is index+1 >= 1, so 0 is free to stand for null

\* A nullable reference: Nothing is null/undefined, Some(v) holds v.
Nothing == <<>>
Some(v) == <<v>>

Min(a, b) == IF a < b THEN a ELSE b
Abs(a) == IF a < 0 THEN -a ELSE a

Digits == <<"0", "1", "2", "3", "4", "5", "6", "7", "8", "9">>

\* Template-literal formatting of a non-negative integer: its decimal digits.
RECURSIVE DecString(_)
DecString(n) ==
    IF n < 10 THEN <<Digits[n + 1]>>
    ELSE Append(DecString(n \div 10), Digits[(n % 10) + 1])

DigitValue(c) == (CHOOSE i \in 1..10 : Digits[i] = c) - 1

\* parseInt / Number of a digit string.
RECURSIVE parseInt(_)
parseInt(s) ==
    IF Len(s) = 1 THEN DigitValue(s[1])
    ELSE 10 * parseInt(SubSeq(s, 1, Len(s) - 1)) + DigitValue(s[Len(s)])

\* A JS Map, in insertion order: a sequence of <<key, value>> entries.
MapHas(m, k) == \E i \in 1..Len(m) : m[i][1] = k
\* The value under a key the map has.
MapGet(m, k) == m[CHOOSE i \in 1..Len(m) : m[i][1] = k][2]
MapSet(m, k, v) ==
    IF MapHas(m, k)
    THEN [i \in 1..Len(m) |-> IF m[i][1] = k THEN <<k, v>> ELSE m[i]]
    ELSE Append(m, <<k, v>>)

----------------------------------------------------------------------------
(* Color registry: idToColor, colorToId, and the registering part of the   *)
(* features.forEach loop.                                                   *)

Tolerance == 12

\* `rgb(${r},${g},${b})`, kept as its three decimal fields.
idToColor(id) ==
    <<"rgb", DecString((id * 73) % 256), DecString((id * 151) % 256),
      DecString((id * 233) % 256)>>

\* colorStr.match(/rgb\((\d+),\s*(\d+),\s*(\d+)\)/) followed by parseInt.
rgbMatch(colorStr) ==
    <<parseInt(colorStr[2]), parseInt(colorStr[3]), parseInt(colorStr[4])>>

\* `${r},${g},${b}`: the three decimal fields that split(',') gives back.
colorKey(r, g, b) == <<DecString(r), DecString(g), DecString(b)>>

\* colorMap.get(colorKey) || null
colorToId(r, g, b, colorMap) ==
    IF MapHas(colorMap, colorKey(r, g, b))
    THEN MapGet(colorMap, colorKey(r, g, b)) ELSE null

\* colorToIdMap.set(colorKey, countryId) for the feature at index countryId-1.
RegisterColor(colorMap, countryId) ==
    LET c == rgbMatch(idToColor(countryId))
    IN MapSet(colorMap, colorKey(c[1], c[2], c[3]), countryId)

Manhattan(c, d) == Abs(c[1] - d[1]) + Abs(c[2] - d[2]) + Abs(c[3] - d[3])

----------------------------------------------------------------------------
(* Strings are sequences of one-character strings.                          *)

UpperCase == <<"A", "B", "C", "D", "E", "F", "G", "H", "I", "J", "K", "L", "M",
               "N", "O", "P", "Q", "R", "S", "T", "U", "V", "W", "X", "Y", "Z">>
LowerCase == <<"a", "b", "c", "d", "e", "f", "g", "h", "i", "j", "k", "l", "m",
               "n", "o", "p", "q", "r", "s", "t", "u", "v", "w", "x", "y", "z">>

IsUpper(c) == \E i \in 1..26 : UpperCase[i] = c
IsAlnum(c) ==
    \/ IsUpper(c)
    \/ \E i \in 1..26 : LowerCase[i] = c
    \/ \E i \in 1..10 : Digits[i] = c

LowerChar(c) ==
    IF IsUpper(c) THEN LowerCase[CHOOSE i \in 1..26 : UpperCase[i] = c] ELSE c

toLowerCase(s) == [i \in 1..Len(s) |-> LowerChar(s[i])]

\* name.replace(/[^a-zA-Z0-9]/g, '-').toLowerCase()
countryClassOf(name) ==
    toLowerCase([i \in 1..Len(name) |-> IF IsAlnum(name[i]) THEN name[i] ELSE "-"])

----------------------------------------------------------------------------
(* Point classifier: detectCountryAtPoint.                                  *)
(* pixels is the RGBA buffer, one <<r, g, b, a>> tuple per pixel, indexed   *)
(* by sy * width + sx.                                                      *)

sampleOffsets == <<<<0, 0>>, <<-1, 0>>, <<1, 0>>, <<0, -1>>, <<0, 1>>>>

AlphaThreshold == 200
Infinity == 1000        \* above any Manhattan distance of two 8-bit colors

\* An approximate match that stops short of the tolerance itself.
RECURSIVE ApproxScanBelow(_, _, _, _, _, _)
ApproxScanBelow(r, g, b, colorMap, i, acc) ==
    IF i > Len(colorMap) THEN acc
    ELSE LET key == colorMap[i][1]
             c == <<parseInt(key[1]), parseInt(key[2]), parseInt(key[3])>>
             distance == Manhattan(<<r, g, b>>, c)
         IN ApproxScanBelow(r, g, b, colorMap, i + 1,
                            IF distance < Tolerance /\ distance < acc[1]
                            THEN <<distance, colorMap[i][2]>> ELSE acc)

\* Body of colorToIdMap.forEach in the approximate match; acc = <<minDistance, bestMatch>>.
RECURSIVE ApproxScan(_, _, _, _, _, _)
ApproxScan(r, g, b, colorMap, i, acc) ==
    IF i > Len(colorMap) THEN acc
    ELSE LET key == colorMap[i][1]
             c == <<parseInt(key[1]), parseInt(key[2]), parseInt(key[3])>>
             distance == Manhattan(<<r, g, b>>, c)
         IN ApproxScan(r, g, b, colorMap, i + 1,
                       IF distance <= Tolerance /\ distance < acc[1]
                       THEN <<distance, colorMap[i][2]>> ELSE acc)

\* The countryId one sampled pixel votes for (null: no vote).
SampleVote(px, colorMap) ==
    IF px[4] >= AlphaThreshold
    THEN LET exact == colorToId(px[1], px[2], px[3], colorMap)
         IN IF exact = null
            THEN ApproxScan(px[1], px[2], px[3], colorMap, 1, <<Infinity, null>>)[2]
            ELSE exact
    ELSE null

\* The sampling loop: candidates is a Map countryId -> count.
RECURSIVE Tally(_, _, _, _, _, _, _, _)
Tally(x, y, pixels, width, height, colorMap, i, candidates) ==
    IF i > Len(sampleOffsets) THEN candidates
    ELSE LET sx == x + sampleOffsets[i][1]
             sy == y + sampleOffsets[i][2]
         IN IF sx < 0 \/ sx >= width \/ sy < 0 \/ sy >= height
            THEN Tally(x, y, pixels, width, height, colorMap, i + 1, candidates)
            ELSE LET countryId == SampleVote(pixels[sy * width + sx], colorMap)
                 IN Tally(x, y, pixels, width, height, colorMap, i + 1,
                          IF countryId # null
                          THEN MapSet(candidates, countryId,
                                      (IF MapHas(candidates, countryId)
                                       THEN MapGet(candidates, countryId) ELSE 0) + 1)
                          ELSE candidates)

\* A vote in which a later entry with an equal count takes over.
RECURSIVE MajorityOfLast(_, _, _)
MajorityOfLast(candidates, i, acc) ==
    IF i > Len(candidates) THEN acc[2]
    ELSE MajorityOfLast(candidates, i + 1,
                        IF candidates[i][2] >= acc[1]
                        THEN <<candidates[i][2], candidates[i][1]>> ELSE acc)

\* candidates.forEach: first entry with a strictly larger count wins; acc = <<maxCount, id>>.
RECURSIVE Majority(_, _, _)
Majority(candidates, i, acc) ==
    IF i > Len(candidates) THEN acc[2]
    ELSE Majority(candidates, i + 1,
                  IF candidates[i][2] > acc[1]
                  THEN <<candidates[i][2], candidates[i][1]>> ELSE acc)

\* The guard before the majority vote: candidates.size === 0 returns null.
TooFewSamples(candidates) == Len(candidates) = 0

Select(candidates) ==
    IF TooFewSamples(candidates) THEN null ELSE Majority(candidates, 1, <<0, null>>)

detectCountryAtPoint(x, y, pixels, width, height, colorMap) ==
    Select(Tally(x, y, pixels, width, height, colorMap, 1, <<>>))

----------------------------------------------------------------------------
(* Rasterizer: the hidden canvas. A projected geometry is an axis-aligned   *)
(* rectangle [x0, x1) x [y0, y1) in pixel coordinates. fill() makes the     *)
(* covered pixels opaque; stroke() with lineWidth 1 straddles the outline,  *)
(* so the pixels just outside it are covered by half (a quarter at the      *)
(* corners) and composited source-over with what is already there.          *)

Opaque == 255
Transparent == <<0, 0, 0, 0>>

InsideRect(g, px, py) == g.x0 <= px /\ px < g.x1 /\ g.y0 <= py /\ py < g.y1
IsEmptyRect(g) == g.x0 >= g.x1 \/ g.y0 >= g.y1

\* Alpha (0..255) that the stroke contributes at a pixel outside the fill.
StrokeAlpha(g, px, py) ==
    IF IsEmptyRect(g) \/ InsideRect(g, px, py) THEN 0
    ELSE LET inX == g.x0 <= px /\ px < g.x1
             inY == g.y0 <= py /\ py < g.y1
             nearX == px = g.x0 - 1 \/ px = g.x1
             nearY == py = g.y0 - 1 \/ py = g.y1
         IN IF (inX /\ nearY) \/ (inY /\ nearX) THEN 128
            ELSE IF nearX /\ nearY THEN 64
            ELSE 0

\* Source-over compositing of color c with alpha as over the pixel dst.
SourceOver(c, as, dst) ==
    LET ad == dst[4]
        ao == as + (ad * (Opaque - as)) \div Opaque
        Ch(i) == (c[i] * as * Opaque + dst[i] * ad * (Opaque - as)) \div (ao * Opaque)
    IN IF as = 0 THEN dst ELSE <<Ch(1), Ch(2), Ch(3), ao>>

\* One feature painted over dst at pixel (px, py): context.fill(); context.stroke().
PaintPixel(dst, g, c, px, py) ==
    IF IsEmptyRect(g) THEN dst
    ELSE IF InsideRect(g, px, py) THEN <<c[1], c[2], c[3], Opaque>>
    ELSE SourceOver(c, StrokeAlpha(g, px, py), dst)

\* Pixel (px, py) after the first n shapes were painted in order, shape i
\* with the color of countryId i.
RECURSIVE PixelAfter(_, _, _, _)
PixelAfter(shapes, n, px, py) ==
    IF n = 0 THEN Transparent
    ELSE PaintPixel(PixelAfter(shapes, n - 1, px, py), shapes[n],
                    rgbMatch(idToColor(n)), px, py)

\* context.getImageData(0, 0, width, height).data
getImageData(shapes, width, height) ==
    [i \in 0..(width * height - 1) |->
        PixelAfter(shapes, Len(shapes), i % width, i \div width)]

----------------------------------------------------------------------------
(* Dot generation loop.                                                     *)
(* countryMap: sequence indexed by countryId of [name, code, hasName].      *)

\* A loop that runs while x <= width.
GridCountInclusive(extent, dotSpacing) == extent \div dotSpacing + 1

\* The number of passes of for (let x = 0; x < width; x += dotSpacing).
GridCount(extent, dotSpacing) == (extent + dotSpacing - 1) \div dotSpacing

\* The dot pushed for a resolved grid point.
MakeDot(x, y, countryId, country) ==
    [x |-> x, y |-> y, countryId |-> countryId,
     countryName |-> country.name, countryCode |-> country.code,
     countryClass |-> countryClassOf(country.name)]

\* country.name.replace(...) throws a TypeError when the name is undefined.
DotThrows(country) == ~country.hasName

\* The inner loop for row y, from column i on; acc = [threw, dots].
RECURSIVE DotRow(_, _, _, _, _, _, _, _, _)
DotRow(pixels, width, height, dotSpacing, countryMap, colorMap, y, i, acc) ==
    IF i >= GridCount(width, dotSpacing) \/ acc.threw THEN acc
    ELSE LET x == i * dotSpacing
             countryId == detectCountryAtPoint(x, y, pixels, width, height, colorMap)
             next ==
                 IF countryId # null /\ countryId <= Len(countryMap)
                 THEN IF DotThrows(countryMap[countryId])
                      THEN [threw |-> TRUE, dots |-> <<>>]
                      ELSE [threw |-> FALSE,
                            dots |-> Append(acc.dots,
                                MakeDot(x, y, countryId, countryMap[countryId]))]
                 ELSE acc
         IN DotRow(pixels, width, height, dotSpacing, countryMap, colorMap,
                   y, i + 1, next)

\* The outer loop, from row j on.
RECURSIVE DotLoop(_, _, _, _, _, _, _, _)
DotLoop(pixels, width, height, dotSpacing, countryMap, colorMap, j, acc) ==
    IF j >= GridCount(height, dotSpacing) \/ acc.threw THEN acc
    ELSE DotLoop(pixels, width, height, dotSpacing, countryMap, colorMap, j + 1,
                 DotRow(pixels, width, height, dotSpacing, countryMap, colorMap,
                        j * dotSpacing, 0, acc))

GenerateDots(pixels, width, height, dotSpacing, countryMap, colorMap) ==
    DotLoop(pixels, width, height, dotSpacing, countryMap, colorMap, 0,
            [threw |-> FALSE, dots |-> <<>>])

\* sum / length, kept as the fraction.
RECURSIVE Sum(_)
Sum(values) == IF values = <<>> THEN 0 ELSE values[1] + Sum(Tail(values))
Average(values) == [num |-> Sum(values), den |-> Len(values)]

\* countryDotGroups.get(countryId): the dots pushed for one feature.
DotGroup(dots, countryId) ==
    LET Same(dot) == dot.countryId = countryId IN SelectSeq(dots, Same)

\* A centroid whose second coordinate is averaged over x as well.
CentroidOfColumns(dots) ==
    <<Average([k \in 1..Len(dots) |-> dots[k].x]),
      Average([k \in 1..Len(dots) |-> dots[k].x])>>

\* [avgX, avgY]
Centroid(dots) ==
    <<Average([k \in 1..Len(dots) |-> dots[k].x]),
      Average([k \in 1..Len(dots) |-> dots[k].y])>>

\* countryDotGroups.forEach: country.centroid by countryId; a feature without
\* a group keeps the null it was entered with.
Centroids(countryMap, dots) ==
    [countryId \in 1..Len(countryMap) |->
        IF Len(DotGroup(dots, countryId)) > 0
        THEN Some(Centroid(DotGroup(dots, countryId))) ELSE Nothing]

\* The registry after the forEach loop ran over n features.
RECURSIVE BuildColorMap(_)
BuildColorMap(n) ==
    IF n = 0 THEN <<>> ELSE RegisterColor(BuildColorMap(n - 1), n)

----------------------------------------------------------------------------
(* Boundary datasets and the feature loop of loadAndProcessMap.             *)

\* Extent of the sphere in model units of longitude and latitude.
Sphere == [lon |-> 8, lat |-> 4]

\* Excerpts of the two lookup tables.
countryNameToISO ==
    << << <<"P", "e", "r", "u">>, <<"p", "e">> >>,
       << <<"O", "m", "a", "n">>, <<"o", "m">> >>,
       << <<"C", "h", "a", "d">>, <<"t", "d">> >> >>
alpha3ToAlpha2 ==
    << << <<"o", "m", "n">>, <<"o", "m">> >>,
       << <<"p", "e", "r">>, <<"p", "e">> >>,
       << <<"t", "c", "d">>, <<"t", "d">> >> >>

Rect(x0, y0, x1, y1) == [x0 |-> x0, y0 |-> y0, x1 |-> x1, y1 |-> y1]

Peru == [properties |-> [name |-> <<"P", "e", "r", "u">>],
         id |-> <<"P", "E", "R">>, geometry |-> Rect(0, 0, 2, 2)]
Chad == [properties |-> [name |-> <<"C", "h", "a", "d">>],
         id |-> <<"T", "C", "D">>, geometry |-> Rect(3, 0, 6, 2)]
Oman == [properties |-> [name |-> <<"O", "m", "a", "n">>],
         id |-> <<"O", "M", "N">>, geometry |-> Rect(6, 2, 8, 4)]
\* The same territory in a dataset that gives it no name.
Unnamed == [properties |-> [admin |-> <<"O", "m", "a", "n">>],
            id |-> <<"O", "M", "N">>, geometry |-> Rect(6, 2, 8, 4)]

WorldNamed == [features |-> <<Peru, Chad, Oman>>]
WorldUnnamed == [features |-> <<Peru, Chad, Unnamed>>]
Datasets == {WorldNamed, WorldUnnamed}

\* A JSON body that is no feature collection (what an error reply carries).
ErrorBody == [message |-> <<"e", "r", "r">>]

\* d3.geoEquirectangular().fitSize([width, height], {type: 'Sphere'})
fitSize(width, height) ==
    LET k == Min(width \div Sphere.lon, height \div Sphere.lat)
    IN [scale |-> k,
        translate |-> <<(width - k * Sphere.lon) \div 2, (height - k * Sphere.lat) \div 2>>]

\* path(feature): the geometry in pixel coordinates.
ProjectGeometry(geoProjection, g) ==
    Rect(geoProjection.translate[1] + geoProjection.scale * g.x0,
         geoProjection.translate[2] + geoProjection.scale * g.y0,
         geoProjection.translate[1] + geoProjection.scale * g.x1,
         geoProjection.translate[2] + geoProjection.scale * g.y1)

HasName(feature) == "name" \in DOMAIN feature.properties

\* countryNameToISO[countryName] || feature.id?.toLowerCase() || '', then alpha-3 to alpha-2.
isoCodeOf(feature) ==
    LET byName == IF HasName(feature) /\ MapHas(countryNameToISO, feature.properties.name)
                  THEN MapGet(countryNameToISO, feature.properties.name) ELSE <<>>
        isoCode == IF byName # <<>> THEN byName
                   ELSE IF "id" \in DOMAIN feature THEN toLowerCase(feature.id)
                   ELSE <<>>
    IN IF Len(isoCode) = 3 /\ MapHas(alpha3ToAlpha2, isoCode)
       THEN MapGet(alpha3ToAlpha2, isoCode) ELSE isoCode

\* countryMap.set(countryId, {name, code, ...})
countryEntry(feature) ==
    [name |-> IF HasName(feature) THEN feature.properties.name ELSE <<>>,
     hasName |-> HasName(feature),
     code |-> isoCodeOf(feature)]

\* The locals of a run after the centroid loop, for the outcome g of the dot loop.
WithCentroids(g, countryMap) ==
    [threw |-> g.threw, dots |-> g.dots,
     centroids |-> IF g.threw THEN <<>> ELSE Centroids(countryMap, g.dots)]

\* Everything between the dataset being at hand and setDots: the canvas,
\* the feature loop, getImageData and the dot generation loop. Reading
\* worldData.features of a body without features throws a TypeError.
ProcessMap(worldData, width, height, dotSpacing) ==
    IF "features" \notin DOMAIN worldData
    THEN [threw |-> TRUE, dots |-> <<>>, centroids |-> <<>>]
    ELSE LET features == worldData.features
             geoProjection == fitSize(width, height)
             countryMap == [i \in 1..Len(features) |-> countryEntry(features[i])]
             shapes == [i \in 1..Len(features) |->
                           ProjectGeometry(geoProjection, features[i].geometry)]
         IN WithCentroids(
                GenerateDots(getImageData(shapes, width, height), width, height,
                             dotSpacing, countryMap, BuildColorMap(Len(features))),
                countryMap)

----------------------------------------------------------------------------
(* The loader and the component's effect.                                   *)

Instances == {"map1", "map2"}

\* Values of the props width, height and dotSpacing that the host passes.
PropsChoices ==
    {[width |-> 8, height |-> 4, dotSpacing |-> 4],
     [width |-> 8, height |-> 4, dotSpacing |-> 2],
     [width |-> 8, height |-> 4, dotSpacing |-> 3],
     [width |-> 16, height |-> 8, dotSpacing |-> 4]}

NoProps == [width |-> 0, height |-> 0, dotSpacing |-> 0]

\* useState initial values; effect is the run the current effect started,
\* dotsRun the run whose setDots call produced dots (0: none).
Unmounted ==
    [mounted |-> FALSE, props |-> NoProps, isLoading |-> TRUE, dots |-> <<>>,
     projection |-> Nothing, effect |-> 0, dotsRun |-> 0]

\* What the server may answer to the fetch.
Responses ==
    {[networkError |-> TRUE, ok |-> FALSE, parsable |-> FALSE, body |-> ErrorBody]}
    \cup {[networkError |-> FALSE, ok |-> TRUE, parsable |-> TRUE, body |-> d] :
             d \in Datasets}
    \cup {[networkError |-> FALSE, ok |-> o, parsable |-> FALSE, body |-> ErrorBody] :
             o \in BOOLEAN}
    \cup {[networkError |-> FALSE, ok |-> FALSE, parsable |-> TRUE, body |-> ErrorBody]}

\* fetch(url).then(res => res.json()): how the promise settles on a response.
SettledPromise(response) ==
    IF ~response.networkError /\ response.parsable
    THEN [state |-> "fulfilled", value |-> Some(response.body)]
    ELSE [state |-> "rejected", value |-> Nothing]

\* A loader that fetches on every load instead of reusing the promise.
ShouldFetchAlways(promise) == TRUE

\* if (!geoJSONPromise): a fetch is issued only when no promise exists.
ShouldFetch(promise) == promise = Nothing

PromiseSettled == geoJSONPromise # Nothing /\ geoJSONPromise[1].state # "pending"
Awaiting == {r \in 1..Len(runs) : runs[r].status = "awaiting"}
\* Continuations of a settled promise run before any other event.
MicrotasksPending == PromiseSettled /\ Awaiting # {}

\* What the component renders: the placeholder with the loading text while
\* isLoading || dots.length === 0, the svg of dots otherwise.
Render(c) == IF c.isLoading \/ Len(c.dots) = 0 THEN "placeholder" ELSE "map"

\* ProcessMap on every body the fetch may deliver, at every choice of props.
Processed ==
    [worldData \in Datasets \cup {ErrorBody}, props \in PropsChoices |->
        ProcessMap(worldData, props.width, props.height, props.dotSpacing)]

\* The isMounted guard of the continuation (line 229 and line 398).
MayPublish(run) == run.isMounted

\* The end of run r on component state c1 once the processing gave p: the
\* catch block after a throw, setDots and setIsLoading(false) otherwise.
Settle(r, c1, p) ==
    IF p.threw
    THEN [status |-> "threw", comp |-> [c1 EXCEPT !.isLoading = FALSE],
          dots |-> <<>>, centroids |-> <<>>]
    ELSE [status |-> "published",
          comp |-> [c1 EXCEPT !.dots = p.dots, !.isLoading = FALSE, !.dotsRun = r],
          dots |-> p.dots, centroids |-> p.centroids]

\* The record of a run that ended as e says, holding worldData.
Ended(run, e, worldData) ==
    [run EXCEPT !.status = e.status, !.worldData = worldData,
                !.dots = e.dots, !.centroids = e.centroids]

\* loadAndProcessMap from line 229 on, for run r holding worldData;
\* c is the state of the run's component. Gives the run's end and the state.
Continue(r, run, worldData, c) ==
    IF ~MayPublish(run)
    THEN [status |-> "discarded", comp |-> c, dots |-> <<>>, centroids |-> <<>>]
    ELSE Settle(r, [c EXCEPT !.projection =
                           Some(fitSize(run.props.width, run.props.height))],
                Processed[worldData, run.props])

\* The catch block for a rejected await.
Catch(run, c) ==
    [status |-> "failed",
     comp |-> IF run.isMounted THEN [c EXCEPT !.isLoading = FALSE] ELSE c]

\* The effect body: loadAndProcessMap() up to its first await, or to its end
\* when the cache is filled. c is the component state the effect runs in and
\* rs the runs so far (after the cleanup of the previous effect, if any).
StartRun(i, c, rs) ==
    LET r == Len(rs) + 1
        run == [inst |-> i, props |-> c.props, isMounted |-> TRUE,
                status |-> "awaiting", worldData |-> Nothing,
                dots |-> <<>>, centroids |-> <<>>]
        c0 == [c EXCEPT !.isLoading = TRUE, !.effect = r]
    IN IF cachedGeoJSON # Nothing
       THEN LET e == Continue(r, run, cachedGeoJSON[1], c0)
            IN /\ runs' = Append(rs, Ended(run, e, cachedGeoJSON))
               /\ comp' = [comp EXCEPT ![i] = e.comp]
               /\ UNCHANGED <<cachedGeoJSON, geoJSONPromise, fetchLog>>
       ELSE /\ runs' = Append(rs, run)
            /\ comp' = [comp EXCEPT ![i] = c0]
            /\ IF ShouldFetch(geoJSONPromise)
               THEN /\ geoJSONPromise' = Some([state |-> "pending", value |-> Nothing])
                    /\ fetchLog' = Append(fetchLog, Nothing)
               ELSE UNCHANGED <<geoJSONPromise, fetchLog>>
            /\ UNCHANGED cachedGeoJSON

\* The effect cleanup: isMounted = false for the run of the current effect.
Cleanup(rs, c) ==
    [r \in 1..Len(rs) |-> IF r = c.effect THEN [rs[r] EXCEPT !.isMounted = FALSE]
                          ELSE rs[r]]

----------------------------------------------------------------------------
(* Values the variables of one part keep while another part is exercised.   *)

NoSample == [pixels |-> <<>>, x |-> 0, y |-> 0]
NoDetection == [done |-> FALSE, id |-> null]
NoScene == <<>>
NoDots == [done |-> FALSE, threw |-> FALSE, dots |-> <<>>]
NoCounts == <<>>
NoCall == <<>>
NoMap == <<>>

LoaderIdle ==
    /\ cachedGeoJSON = Nothing
    /\ geoJSONPromise = Nothing
    /\ fetchLog = <<>>
    /\ runs = <<>>
    /\ comp = [i \in Instances |-> Unmounted]
RegistryIdle == colorToIdMap = <<>> /\ countryCount = 0
ClassifierIdle == sample = NoSample /\ detected = NoDetection
SceneIdle == scene = NoScene /\ generatedDots = NoDots
ColorizerIdle == dynamicSpeciesCount = NoCounts /\ intensity = NoCall
InteractionIdle == rendered = NoMap /\ clicks = <<>>
ResolverIdle == entryFeature = Nothing /\ entryCode = Nothing
PaletteIdle == bucketCounts = Nothing /\ bucketIndex = Nothing
StoreIdle == calls = <<>>

----------------------------------------------------------------------------
(* The registry loop on its own: features.forEach registering one color    *)
(* per feature, for datasets of up to MaxFeatures features.                 *)

RegistryInit ==
    /\ LoaderIdle /\ RegistryIdle /\ ClassifierIdle /\ SceneIdle
    /\ ColorizerIdle /\ InteractionIdle
    /\ ResolverIdle /\ PaletteIdle /\ StoreIdle

RegisterFeature ==
    /\ countryCount < MaxFeatures
    /\ countryCount' = countryCount + 1
    /\ colorToIdMap' = RegisterColor(colorToIdMap, countryCount + 1)
    /\ UNCHANGED <<loaderVars, classifierVars, sceneVars, colorizerVars, interactionVars, resolverVars, paletteVars, storeVars>>

RegistryNext == RegisterFeature

SpecRegistry == RegistryInit /\ [][RegistryNext]_vars

----------------------------------------------------------------------------
(* The classifier on its own: a SampleSide x SampleSide raster whose pixels *)
(* around the classified point are drawn from a palette built on two        *)
(* bordering features.                                                      *)

BorderPair == <<5, 7>>
BorderColor(i) == rgbMatch(idToColor(BorderPair[i]))
OpaquePixel(c) == <<c[1], c[2], c[3], Opaque>>

\* The later feature's stroke composited over the earlier feature's fill.
BlendPixel == SourceOver(BorderColor(2), 128, OpaquePixel(BorderColor(1)))
\* A stroke over the empty canvas.
FringePixel == SourceOver(BorderColor(1), 128, Transparent)

\* An opaque color at the given distance from the first feature's color.
ShiftedPixel(distance) ==
    <<BorderColor(1)[1] + distance, BorderColor(1)[2], BorderColor(1)[3], Opaque>>
\* The last distance the approximate match accepts, and the first it
\* rejects: an opaque color that no feature owns and none is near enough.
NearPixel == ShiftedPixel(Tolerance)
FarPixel == ShiftedPixel(Tolerance + 1)

SamplePalette ==
    {Transparent, OpaquePixel(BorderColor(1)), OpaquePixel(BorderColor(2)),
     BlendPixel, FringePixel, NearPixel, FarPixel}

\* Raster indexes of the in-bounds samples around (x, y).
SampledIndexes(x, y, width, height) ==
    {(y + sampleOffsets[i][2]) * width + (x + sampleOffsets[i][1]) :
        i \in {j \in 1..Len(sampleOffsets) :
                 /\ x + sampleOffsets[j][1] >= 0 /\ x + sampleOffsets[j][1] < width
                 /\ y + sampleOffsets[j][2] >= 0 /\ y + sampleOffsets[j][2] < height}}

ClassifierInit ==
    /\ ColorizerIdle /\ InteractionIdle
    /\ ResolverIdle /\ PaletteIdle /\ StoreIdle
    /\ LoaderIdle /\ RegistryIdle /\ SceneIdle
    /\ detected = NoDetection
    /\ \E x \in 0..(SampleSide - 1), y \in 0..(SampleSide - 1) :
         \E around \in [SampledIndexes(x, y, SampleSide, SampleSide) -> SamplePalette] :
            sample = [pixels |-> [i \in 0..(SampleSide * SampleSide - 1) |->
                                     IF i \in DOMAIN around THEN around[i]
                                     ELSE Transparent],
                      x |-> x, y |-> y]

Classify ==
    /\ ~detected.done
    /\ detected' = [done |-> TRUE,
                    id |-> detectCountryAtPoint(sample.x, sample.y, sample.pixels,
                               SampleSide, SampleSide, BuildColorMap(SampleFeatures))]
    /\ UNCHANGED <<loaderVars, registryVars, sample, sceneVars, colorizerVars, interactionVars, resolverVars, paletteVars, storeVars>>

ClassifierNext == Classify

SpecClassifier == ClassifierInit /\ [][ClassifierNext]_vars

----------------------------------------------------------------------------
(* The generator on a synthetic scene: two non-overlapping axis-aligned     *)
(* squares painted on a 100 x 100 raster scanned with spacing 10.           *)

SceneRaster == [width |-> 100, height |-> 100, dotSpacing |-> 10]

Square(x0, y0, side) == [x0 |-> x0, y0 |-> y0, x1 |-> x0 + side, y1 |-> y0 + side]

SceneSquares ==
    {Square(x0, y0, k * SceneRaster.dotSpacing) :
        x0 \in {p \in 0..SceneRaster.width : p % SceneStep = 0},
        y0 \in {p \in 0..SceneRaster.height : p % SceneStep = 0},
        k \in 1..MaxSide}

FitsRaster(g) == g.x1 <= SceneRaster.width /\ g.y1 <= SceneRaster.height
Overlap(g, h) == g.x0 < h.x1 /\ h.x0 < g.x1 /\ g.y0 < h.y1 /\ h.y0 < g.y1

SceneCountryMap ==
    <<[name |-> <<"A">>, code |-> <<>>, hasName |-> TRUE],
      [name |-> <<"B">>, code |-> <<>>, hasName |-> TRUE]>>

SceneInit ==
    /\ LoaderIdle /\ RegistryIdle /\ ClassifierIdle
    /\ ColorizerIdle /\ InteractionIdle
    /\ ResolverIdle /\ PaletteIdle /\ StoreIdle
    /\ generatedDots = NoDots
    /\ \E a \in SceneSquares, b \in SceneSquares :
         /\ FitsRaster(a) /\ FitsRaster(b) /\ ~Overlap(a, b)
         /\ scene = <<a, b>>

GenerateScene ==
    /\ ~generatedDots.done
    /\ LET r == GenerateDots(
                   getImageData(scene, SceneRaster.width, SceneRaster.height),
                   SceneRaster.width, SceneRaster.height, SceneRaster.dotSpacing,
                   SceneCountryMap, BuildColorMap(Len(scene)))
       IN generatedDots' = [done |-> TRUE, threw |-> r.threw, dots |-> r.dots]
    /\ UNCHANGED <<loaderVars, registryVars, classifierVars, scene, colorizerVars, interactionVars, resolverVars, paletteVars, storeVars>>

SceneNext == GenerateScene

SpecScene == SceneInit /\ [][SceneNext]_vars


----------------------------------------------------------------------------
(* biodiversityData.js: the species counts per category and the color of a  *)
(* country on the map.                                                      *)

MaxCount == 3

UpperChar(c) ==
    IF \E i \in 1..26 : LowerCase[i] = c
    THEN UpperCase[CHOOSE i \in 1..26 : LowerCase[i] = c] ELSE c

toUpperCase(s) == [i \in 1..Len(s) |-> UpperChar(s[i])]

\* The colors of two of the themes, lightest first; "plant" and "animal"
\* stand for the keys of the plant and of the animal theme.
categoryThemes ==
    [plant |-> <<"#d1fae5", "#6ee7b7", "#34d399", "#10b981", "#059669">>,
     animal |-> <<"#fef3c7", "#fde68a", "#fbbf24", "#f59e0b", "#d97706">>]

Categories == DOMAIN categoryThemes

\* categoryThemes[category]?.colors || the colors of the animal theme
ColorsOf(category) ==
    IF category \in DOMAIN categoryThemes THEN categoryThemes[category]
    ELSE categoryThemes["animal"]

\* colors[i] of a JS array.
At(colors, i) == colors[i + 1]

\* Country codes: as keys of a dataset and as arguments of a query.
StoredCodes == {<<"K", "R">>, <<"k", "r">>, <<"U", "S">>}
QueryCodes == StoredCodes \cup {<<"K", "r">>, <<>>}
Counts == 0..MaxCount

\* The objects a caller passes as countData.
CountData ==
    UNION {[S -> Counts] :
             S \in {T \in SUBSET StoredCodes :
                      Cardinality(T) < Cardinality(StoredCodes)}}

\* An update that stores the supplied object in place of the dataset.
MergeReplacing(old, new) == new

\* { ...old, ...new }
Merge(old, new) ==
    [k \in DOMAIN old \cup DOMAIN new |-> IF k \in DOMAIN new THEN new[k] ELSE old[k]]

\* object[key] = value
Assign(object, key, value) == Merge(object, [k \in {key} |-> value])

updateSpeciesCount(counts, countData, category) ==
    LET created == IF category \in DOMAIN counts THEN counts
                   ELSE Assign(counts, category, <<>>)
    IN Assign(created, category, Merge(created[category], countData))

resetSpeciesCount(counts, category) == Assign(counts, category, <<>>)

RECURSIVE Pow(_, _)
Pow(b, e) == IF e = 0 THEN 1 ELSE b * Pow(b, e - 1)

Max(S) == CHOOSE m \in S : \A o \in S : o <= m
Least(S) == CHOOSE m \in S : \A o \in S : m <= o

\* Math.log(a + 1) - Math.log(b + 1), kept as the pair of the two arguments
\* of the logarithm: the difference is 0 exactly when they are equal.
LogDiff(a, b) == <<a + 1, b + 1>>
IsZero(diff) == diff[1] = diff[2]

\* A colorizer whose comparisons of normalizedValue point the other way.
AboveFifths(num, den, k) ==
    IF IsZero(den) THEN FALSE
    ELSE Pow(num[1], 5) * Pow(den[2], k) > Pow(den[1], k) * Pow(num[2], 5)

\* normalizedValue < k / 5 for normalizedValue = num / den. A zero den under
\* a zero num makes normalizedValue NaN, which is below nothing.
BelowFifths(num, den, k) ==
    IF IsZero(den) THEN FALSE
    ELSE Pow(num[1], 5) * Pow(den[2], k) < Pow(den[1], k) * Pow(num[2], 5)

NO_DATA == [color |-> Nothing, hasData |-> FALSE, loading |-> FALSE,
            notInCache |-> FALSE]
LOADING(colors) == [color |-> Some(At(colors, 2)), hasData |-> TRUE,
                    loading |-> TRUE, notInCache |-> FALSE]
Colored(color) == [color |-> Some(color), hasData |-> TRUE, loading |-> FALSE,
                   notInCache |-> FALSE]

\* A colorizer that shows a code missing from the counts as one without data.
NotInCacheAsNoData(colors) == NO_DATA

\* { color: colors[1], hasData: true, notInCache: true }
NOT_IN_CACHE(colors) == [Colored(At(colors, 1)) EXCEPT !.notInCache = TRUE]

\* object[key]: Nothing for undefined.
Property(object, key) ==
    IF key \in DOMAIN object THEN Some(object[key]) ELSE Nothing

\* A colorizer that takes only a category never stored for one without data.
IsMissing(dynamicData) == dynamicData = Nothing

\* !dynamicData || Object.keys(dynamicData).length === 0
IsEmpty(dynamicData) == dynamicData = Nothing \/ DOMAIN dynamicData[1] = {}

\* A colorizer that buckets a count of 0 like any other count.
NeverZero(count) == FALSE

\* if (count === 0)
IsZeroCount(count) == count[1] = 0

\* dynamicData[upperCode] || dynamicData[countryCode]
Count(dynamicData, upperCode, countryCode) ==
    LET first == Property(dynamicData, upperCode)
    IN IF first # Nothing /\ first[1] # 0 THEN first
       ELSE Property(dynamicData, countryCode)

\* A colorizer that normalizes a dataset of one value like any other.
NeverFlat(minCount, maxCount) == FALSE

\* if (minCount === maxCount)
IsFlat(minCount, maxCount) == minCount = maxCount

\* The five comparisons of normalizedValue with 0.2, 0.4, 0.6 and 0.8.
ColorIndex(num, den) ==
    IF BelowFifths(num, den, 1) THEN 0
    ELSE IF BelowFifths(num, den, 2) THEN 1
    ELSE IF BelowFifths(num, den, 3) THEN 2
    ELSE IF BelowFifths(num, den, 4) THEN 3
    ELSE 4

\* getColorIntensity(category, countryCode) on the counts of all categories.
\* returned is the object the call returns; divisor is the divisor of the
\* division the call evaluated, Nothing when it evaluated none.
getColorIntensity(counts, category, countryCode) ==
    LET colors == ColorsOf(category)
        upperCode == toUpperCase(countryCode)
        dynamicData == Property(counts, category)
        Fixed(object) == [returned |-> object, divisor |-> Nothing]
    IN IF IsEmpty(dynamicData)
       THEN Fixed(LOADING(colors))
       ELSE LET count == Count(dynamicData[1], upperCode, countryCode)
                validCounts == {dynamicData[1][k] : k \in DOMAIN dynamicData[1]} \ {0}
            IN IF count = Nothing
               THEN Fixed(NOT_IN_CACHE(colors))
               ELSE IF IsZeroCount(count) THEN Fixed(NO_DATA)
               ELSE IF validCounts = {} THEN Fixed(NO_DATA)
               ELSE LET minCount == Least(validCounts)
                        maxCount == Max(validCounts)
                        num == LogDiff(count[1], minCount)
                        den == LogDiff(maxCount, minCount)
                    IN IF IsFlat(minCount, maxCount)
                       THEN Fixed(Colored(At(colors, 2)))
                       ELSE [returned |-> Colored(At(colors, ColorIndex(num, den))),
                             divisor |-> Some(den)]

ColorizerInit ==
    /\ LoaderIdle /\ RegistryIdle /\ ClassifierIdle /\ SceneIdle
    /\ ColorizerIdle /\ InteractionIdle
    /\ ResolverIdle /\ PaletteIdle /\ StoreIdle

\* A caller stores counts of a category.
UpdateSpeciesCount(countData, category) ==
    /\ intensity = NoCall
    /\ dynamicSpeciesCount' = updateSpeciesCount(dynamicSpeciesCount, countData, category)
    /\ UNCHANGED intensity
    /\ UNCHANGED <<loaderVars, registryVars, classifierVars, sceneVars, interactionVars, resolverVars, paletteVars, storeVars>>

\* A caller empties the dataset of a category.
ResetSpeciesCount(category) ==
    /\ intensity = NoCall
    /\ dynamicSpeciesCount' = resetSpeciesCount(dynamicSpeciesCount, category)
    /\ UNCHANGED intensity
    /\ UNCHANGED <<loaderVars, registryVars, classifierVars, sceneVars, interactionVars, resolverVars, paletteVars, storeVars>>

\* A caller asks for the color of a code; the call runs to its return.
GetColorIntensity(category, countryCode) ==
    /\ intensity = NoCall
    /\ LET call == getColorIntensity(dynamicSpeciesCount, category, countryCode)
       IN intensity' = Some([category |-> category, countryCode |-> countryCode,
                             returned |-> call.returned, divisor |-> call.divisor])
    /\ UNCHANGED dynamicSpeciesCount
    /\ UNCHANGED <<loaderVars, registryVars, classifierVars, sceneVars, interactionVars, resolverVars, paletteVars, storeVars>>

\* The caller has used the returned object.
Return ==
    /\ intensity # NoCall
    /\ intensity' = NoCall
    /\ UNCHANGED dynamicSpeciesCount
    /\ UNCHANGED <<loaderVars, registryVars, classifierVars, sceneVars, interactionVars, resolverVars, paletteVars, storeVars>>

ColorizerNext ==
    \/ \E countData \in CountData, category \in Categories :
          UpdateSpeciesCount(countData, category)
    \/ \E category \in Categories : ResetSpeciesCount(category)
    \/ \E category \in Categories, countryCode \in QueryCodes :
          GetColorIntensity(category, countryCode)
    \/ Return

SpecColorizer == ColorizerInit /\ [][ColorizerNext]_vars

----------------------------------------------------------------------------
(* The rendered map and its mouse handlers: a component that has published  *)
(* the dots of a dataset in which one territory has neither a name of the   *)
(* lookup table nor an id.                                                  *)

MaxClicks == 2

Nowhere == [properties |-> [name |-> <<"B", "i", "r">>], geometry |-> Rect(6, 2, 8, 4)]
WorldCodeless == [features |-> <<Peru, Chad, Nowhere>>]

\* Values of the prop filteredCountries: null, or an array of codes.
FilterChoices ==
    {Nothing, Some(<<>>), Some(<< <<"P", "E">> >>),
     Some(<< <<"P", "E">>, <<"T", "D">> >>)}

includes(array, value) == \E i \in 1..Len(array) : array[i] = value

\* isFiltered of the dot being rendered.
isFiltered(filteredCountries, dot) ==
    /\ filteredCountries # Nothing
    /\ Len(filteredCountries[1]) > 0
    /\ ~includes(filteredCountries[1], toUpperCase(dot.countryCode))

\* projection.invert([x, y]): longitude and latitude as fractions of the
\* model's units.
invert(geoProjection, point) ==
    [lng |-> [num |-> point[1] - geoProjection.translate[1], den |-> geoProjection.scale],
     lat |-> [num |-> point[2] - geoProjection.translate[2], den |-> geoProjection.scale]]

\* if (!isFiltered && onCountryClick && projection)
ClickReaches(map, dot) ==
    /\ ~isFiltered(map.filteredCountries, dot)
    /\ map.onCountryClick
    /\ map.projection # Nothing

\* The props dotColor and highlightColor as the host passes them.
dotColor == "#728C87"
highlightColor == "#4D625E"

\* What a JSX attribute is given: a string, or an object.
String(value) == [type |-> "string", value |-> value]
Object(value) == [type |-> "object", value |-> value]

\* The datasets of the colorizer while a map is shown.
PeruCounts == [k \in {<<"P", "E">>, <<"T", "D">>} |-> IF k = <<"P", "E">> THEN 2 ELSE 0]
ShownCounts == {NoCounts, [k \in {"plant"} |-> PeruCounts]}

\* baseDotColor of the dot being rendered.
baseDotColor(map, counts, dot) ==
    LET countryCodeUpper == toUpperCase(dot.countryCode)
    IN IF isFiltered(map.filteredCountries, dot) THEN String("#e5e7eb")
       ELSE IF map.category # Nothing /\ countryCodeUpper # <<>>
       THEN Object(getColorIntensity(counts, map.category[1], countryCodeUpper).returned)
       ELSE String(dotColor)

\* fill of the visible circle of the dot.
fill(map, counts, dot) ==
    IF map.hoveredCountry = Some(dot.countryCode) THEN String(highlightColor)
    ELSE baseDotColor(map, counts, dot)

\* What filteredCountries decides of the two circles of a dot.
DotView(map, counts, dot) ==
    [fill |-> fill(map, counts, dot),
     opacity |-> IF isFiltered(map.filteredCountries, dot) THEN "0.3" ELSE "1",
     cursor |-> IF isFiltered(map.filteredCountries, dot) THEN "default" ELSE "pointer"]

\* A dependency list that names filteredCountries too.
EffectDepsWithFilter == {"width", "height", "dotSpacing", "filteredCountries"}

\* The dependency list of the effect that loads and processes the map.
EffectDeps == {"width", "height", "dotSpacing"}

\* The component after a render in which the props of the set changed have
\* new values: the effect runs again when one of them is a dependency.
Rerender(map, changed) ==
    IF changed \cap EffectDeps # {}
    THEN [map EXCEPT !.dots = ProcessMap(WorldCodeless, map.props.width, map.props.height,
                                         map.props.dotSpacing).dots,
                     !.projection = Some(fitSize(map.props.width, map.props.height)),
                     !.effects = @ + 1]
    ELSE map

InteractionInit ==
    /\ LoaderIdle /\ RegistryIdle /\ ClassifierIdle /\ SceneIdle
    /\ ResolverIdle /\ PaletteIdle /\ StoreIdle
    /\ intensity = NoCall
    /\ dynamicSpeciesCount \in ShownCounts
    /\ clicks = <<>>
    /\ \E props \in PropsChoices, filteredCountries \in FilterChoices,
          onCountryClick \in BOOLEAN, category \in {Nothing, Some("plant")} :
          rendered = Some([props |-> props,
                           dots |-> ProcessMap(WorldCodeless, props.width, props.height,
                                               props.dotSpacing).dots,
                           projection |-> Some(fitSize(props.width, props.height)),
                           effects |-> 1,
                           category |-> category,
                           filteredCountries |-> filteredCountries,
                           onCountryClick |-> onCountryClick,
                           hoveredCountry |-> Nothing,
                           flagPosition |-> Nothing])

\* The host renders the map with another value of filteredCountries.
SetFilteredCountries(filteredCountries) ==
    /\ filteredCountries # rendered[1].filteredCountries
    /\ rendered' = Some(Rerender([rendered[1] EXCEPT
                                    !.filteredCountries = filteredCountries],
                                 {"filteredCountries"}))
    /\ UNCHANGED clicks
    /\ UNCHANGED <<loaderVars, registryVars, classifierVars, sceneVars, colorizerVars,
                   resolverVars, paletteVars, storeVars>>

\* onMouseEnter of the k-th dot.
MouseEnter(k) ==
    /\ k \in 1..Len(rendered[1].dots)
    /\ LET dot == rendered[1].dots[k]
       IN rendered' =
            IF ~isFiltered(rendered[1].filteredCountries, dot)
            THEN Some([rendered[1] EXCEPT
                         !.hoveredCountry = Some(dot.countryCode),
                         !.flagPosition = Some([x |-> dot.x, y |-> dot.y,
                                                code |-> dot.countryCode])])
            ELSE rendered
    /\ UNCHANGED clicks
    /\ UNCHANGED <<loaderVars, registryVars, classifierVars, sceneVars, colorizerVars,
                   resolverVars, paletteVars, storeVars>>

\* onMouseLeave of a dot.
MouseLeave ==
    /\ rendered' = Some([rendered[1] EXCEPT !.hoveredCountry = Nothing,
                                            !.flagPosition = Nothing])
    /\ UNCHANGED clicks
    /\ UNCHANGED <<loaderVars, registryVars, classifierVars, sceneVars, colorizerVars,
                   resolverVars, paletteVars, storeVars>>

\* onClick of the k-th dot.
Click(k) ==
    /\ k \in 1..Len(rendered[1].dots)
    /\ Len(clicks) < MaxClicks
    /\ LET dot == rendered[1].dots[k]
           at == invert(rendered[1].projection[1], <<dot.x, dot.y>>)
       IN clicks' =
            IF ClickReaches(rendered[1], dot)
            THEN Append(clicks, [code |-> dot.countryCode, name |-> dot.countryName,
                                 lat |-> at.lat, lng |-> at.lng])
            ELSE clicks
    /\ UNCHANGED rendered
    /\ UNCHANGED <<loaderVars, registryVars, classifierVars, sceneVars, colorizerVars,
                   resolverVars, paletteVars, storeVars>>

InteractionNext ==
    \/ \E filteredCountries \in FilterChoices : SetFilteredCountries(filteredCountries)
    \/ \E k \in 1..Len(rendered[1].dots) : MouseEnter(k)
    \/ MouseLeave
    \/ \E k \in 1..Len(rendered[1].dots) : Click(k)

SpecInteraction == InteractionInit /\ [][InteractionNext]_vars

----------------------------------------------------------------------------
(* The exported functions of biodiversityData.js under a host that logs its  *)
(* calls.                                                                    *)

MaxCalls == 3           \* calls of one behaviour
MaxStored == 1          \* largest count a caller supplies

StoreCodes == {<<"K", "R">>, <<"U", "S">>}

\* The objects a caller passes as countData.
StoreData == UNION {[S -> 0..MaxStored] : S \in SUBSET StoreCodes}

\* One entry of the log.
Call(kind, category, countData, countryCode) ==
    [kind |-> kind, category |-> category, countData |-> countData,
     countryCode |-> countryCode]

StoreInit ==
    /\ LoaderIdle /\ RegistryIdle /\ ClassifierIdle /\ SceneIdle
    /\ ColorizerIdle /\ InteractionIdle /\ ResolverIdle /\ PaletteIdle
    /\ calls = <<>>

\* The host calls updateSpeciesCount(countData, category).
CallUpdate(countData, category) ==
    /\ Len(calls) < MaxCalls
    /\ dynamicSpeciesCount' = updateSpeciesCount(dynamicSpeciesCount, countData, category)
    /\ calls' = Append(calls, Call("update", category, countData, <<>>))
    /\ UNCHANGED intensity
    /\ UNCHANGED <<loaderVars, registryVars, classifierVars, sceneVars, interactionVars,
                   resolverVars, paletteVars>>

\* The host calls resetSpeciesCount(category).
CallReset(category) ==
    /\ Len(calls) < MaxCalls
    /\ dynamicSpeciesCount' = resetSpeciesCount(dynamicSpeciesCount, category)
    /\ calls' = Append(calls, Call("reset", category, <<>>, <<>>))
    /\ UNCHANGED intensity
    /\ UNCHANGED <<loaderVars, registryVars, classifierVars, sceneVars, interactionVars,
                   resolverVars, paletteVars>>

\* The map calls getColorIntensity(category, countryCode), which reads
\* dynamicSpeciesCount[category] and assigns to no property of it.
CallGet(category, countryCode) ==
    /\ Len(calls) < MaxCalls
    /\ getColorIntensity(dynamicSpeciesCount, category, countryCode).returned.hasData
          \in BOOLEAN
    /\ calls' = Append(calls, Call("get", category, <<>>, countryCode))
    /\ UNCHANGED <<dynamicSpeciesCount, intensity>>
    /\ UNCHANGED <<loaderVars, registryVars, classifierVars, sceneVars, interactionVars,
                   resolverVars, paletteVars>>

StoreNext ==
    \/ \E countData \in StoreData, category \in Categories : CallUpdate(countData, category)
    \/ \E category \in Categories : CallReset(category)
    \/ \E category \in Categories, countryCode \in StoreCodes :
          CallGet(category, countryCode)

SpecStore == StoreInit /\ [][StoreNext]_vars

----------------------------------------------------------------------------
(* The log scale of getColorIntensity on counts up to the first for which a  *)
(* normalizedValue lies on a fifth. The logarithms, their differences and    *)
(* the quotient are IEEE-754 doubles, and so are 0.2, 0.4, 0.6 and 0.8.      *)

MaxLeast == 2           \* largest minCount of a dataset
MaxGreatest == 63       \* largest maxCount of a dataset

\* normalizedValue against k / 5 in exact arithmetic:
\* 5 (ln(count+1) - ln(minCount+1)) against k (ln(maxCount+1) - ln(minCount+1)).
FifthsOrder(count, minCount, maxCount, k) ==
    LET left == Pow(count + 1, 5)
        right == Pow(minCount + 1, 5 - k) * Pow(maxCount + 1, k)
    IN IF left < right THEN "below" ELSE IF left = right THEN "on" ELSE "above"

\* The quotients of line 223 that are a fifth in exact arithmetic and a
\* double below the double of that fifth. For minCount 1 and maxCount 63
\* Math.log gives 1, 6 and n times the double of ln 2 for count = 2^n - 1:
\*   count 3: 0.2     count 7: 0.39999999999999997     count 15: 0.6
\*   count 31: 0.8
\* No other counts up to 64 have a quotient on a fifth.
RoundedDown == {[count |-> 7, minCount |-> 1, maxCount |-> 63, k |-> 2]}

\* normalizedValue < k / 5 as the doubles compare.
RoundedBelow(count, minCount, maxCount, k) ==
    \/ FifthsOrder(count, minCount, maxCount, k) = "below"
    \/ /\ FifthsOrder(count, minCount, maxCount, k) = "on"
       /\ [count |-> count, minCount |-> minCount, maxCount |-> maxCount, k |-> k]
             \in RoundedDown

\* The if-chain of lines 226-236.
colorIndexOf(count, minCount, maxCount) ==
    IF RoundedBelow(count, minCount, maxCount, 1) THEN 0
    ELSE IF RoundedBelow(count, minCount, maxCount, 2) THEN 1
    ELSE IF RoundedBelow(count, minCount, maxCount, 3) THEN 2
    ELSE IF RoundedBelow(count, minCount, maxCount, 4) THEN 3
    ELSE 4

PaletteInit ==
    /\ LoaderIdle /\ RegistryIdle /\ ClassifierIdle /\ SceneIdle
    /\ ColorizerIdle /\ InteractionIdle /\ ResolverIdle /\ StoreIdle
    /\ bucketCounts = Nothing
    /\ bucketIndex = Nothing

\* getColorIntensity comes to line 218 with a positive count of a dataset
\* whose least and largest positive counts differ.
EnterLogScale(count, minCount, maxCount) ==
    /\ bucketCounts = Nothing
    /\ minCount < maxCount
    /\ minCount <= count /\ count <= maxCount
    /\ bucketCounts' = Some([count |-> count, minCount |-> minCount,
                             maxCount |-> maxCount])
    /\ bucketIndex' = Nothing
    /\ UNCHANGED <<loaderVars, registryVars, classifierVars, sceneVars, colorizerVars,
                   interactionVars, resolverVars, storeVars>>

\* Lines 218-236: the logarithms, normalizedValue and the if-chain.
SetColorIndex ==
    /\ bucketCounts # Nothing
    /\ bucketIndex = Nothing
    /\ bucketIndex' = Some(colorIndexOf(bucketCounts[1].count, bucketCounts[1].minCount,
                                        bucketCounts[1].maxCount))
    /\ UNCHANGED bucketCounts
    /\ UNCHANGED <<loaderVars, registryVars, classifierVars, sceneVars, colorizerVars,
                   interactionVars, resolverVars, storeVars>>

\* Line 238: the call returns the color of the index.
ReturnColor ==
    /\ bucketIndex # Nothing
    /\ bucketCounts' = Nothing
    /\ bucketIndex' = Nothing
    /\ UNCHANGED <<loaderVars, registryVars, classifierVars, sceneVars, colorizerVars,
                   interactionVars, resolverVars, storeVars>>

PaletteNext ==
    \/ \E minCount \in 1..MaxLeast, maxCount \in 1..MaxGreatest, count \in 1..MaxGreatest :
          EnterLogScale(count, minCount, maxCount)
    \/ SetColorIndex
    \/ ReturnColor

SpecPalette == PaletteInit /\ [][PaletteNext]_vars

----------------------------------------------------------------------------
(* The forEach loop of loadAndProcessMap, one feature at a time: the code    *)
(* it stores in countryMap for the feature.                                  *)

\* Values of feature.properties.name: three of the lookup table, one that
\* the table does not list, and a feature without name.
EntryNames ==
    {Some(<<"P", "e", "r", "u">>), Some(<<"C", "h", "a", "d">>),
     Some(<<"O", "m", "a", "n">>), Some(<<"B", "i", "r">>), Nothing}

\* Values of feature.id: alpha-3 codes of the conversion table, an alpha-3
\* code that the table does not list, the id of a territory without ISO code,
\* alpha-2 codes, shorter and longer strings, and a feature without id.
EntryIds ==
    {Some(<<"P", "E", "R">>), Some(<<"T", "C", "D">>), Some(<<"O", "M", "N">>),
     Some(<<"B", "H", "S">>), Some(<<"-", "9", "9">>), Some(<<"P", "E">>),
     Some(<<"p", "e">>), Some(<<"P">>), Some(<<"C", "S", "-", "K", "M">>),
     Some(<<>>), Nothing}

\* The feature of a name and an id.
EntryFeature(name, id) ==
    LET properties == IF name = Nothing THEN [other |-> <<>>] ELSE [name |-> name[1]]
    IN IF id = Nothing THEN [properties |-> properties]
       ELSE [properties |-> properties, id |-> id[1]]

EntryFeatures == {EntryFeature(name, id) : name \in EntryNames, id \in EntryIds}

ResolverInit ==
    /\ LoaderIdle /\ RegistryIdle /\ ClassifierIdle /\ SceneIdle
    /\ ColorizerIdle /\ InteractionIdle /\ PaletteIdle /\ StoreIdle
    /\ entryFeature = Nothing
    /\ entryCode = Nothing

\* The loop body stores the entry of the feature.
SetEntry ==
    /\ entryFeature # Nothing
    /\ entryCode = Nothing
    /\ entryCode' = Some(countryEntry(entryFeature[1]).code)
    /\ UNCHANGED entryFeature
    /\ UNCHANGED <<loaderVars, registryVars, classifierVars, sceneVars, colorizerVars,
                   interactionVars, paletteVars, storeVars>>

\* The loop comes to its first, or goes on to its next, feature.
NextFeature(f) ==
    /\ entryFeature = Nothing \/ entryCode # Nothing
    /\ entryFeature' = Some(f)
    /\ entryCode' = Nothing
    /\ UNCHANGED <<loaderVars, registryVars, classifierVars, sceneVars, colorizerVars,
                   interactionVars, paletteVars, storeVars>>

ResolverNext ==
    \/ SetEntry
    \/ \E f \in EntryFeatures : NextFeature(f)

SpecResolver == ResolverInit /\ [][ResolverNext]_vars

----------------------------------------------------------------------------
(* The loader and the component as a state machine.                         *)

LoaderInit ==
    /\ LoaderIdle /\ RegistryIdle /\ ClassifierIdle /\ SceneIdle
    /\ ColorizerIdle /\ InteractionIdle
    /\ ResolverIdle /\ PaletteIdle /\ StoreIdle

\* The host mounts the map with some width, height and spacing.
Mount(i, props) ==
    /\ ~comp[i].mounted
    /\ ~MicrotasksPending
    /\ Len(runs) < MaxRuns
    /\ StartRun(i, [Unmounted EXCEPT !.mounted = TRUE, !.props = props], runs)
    /\ UNCHANGED <<registryVars, classifierVars, sceneVars, colorizerVars, interactionVars, resolverVars, paletteVars, storeVars>>

\* The host unmounts the map: the cleanup runs and the state is dropped.
Unmount(i) ==
    /\ comp[i].mounted
    /\ ~MicrotasksPending
    /\ runs' = Cleanup(runs, comp[i])
    /\ comp' = [comp EXCEPT ![i] = Unmounted]
    /\ UNCHANGED <<cachedGeoJSON, geoJSONPromise, fetchLog>>
    /\ UNCHANGED <<registryVars, classifierVars, sceneVars, colorizerVars, interactionVars, resolverVars, paletteVars, storeVars>>

\* The network answers the pending fetch and the body is parsed.
FetchSettle(response) ==
    /\ geoJSONPromise # Nothing
    /\ geoJSONPromise[1].state = "pending"
    /\ geoJSONPromise' = Some(SettledPromise(response))
    /\ fetchLog' = [fetchLog EXCEPT ![Len(fetchLog)] = Some(response)]
    /\ UNCHANGED <<cachedGeoJSON, runs, comp>>
    /\ UNCHANGED <<registryVars, classifierVars, sceneVars, colorizerVars, interactionVars, resolverVars, paletteVars, storeVars>>

\* The host changes width, height or dotSpacing: cleanup, then the effect again.
ChangeProps(i, props) ==
    /\ comp[i].mounted
    /\ ~MicrotasksPending
    /\ Len(runs) < MaxRuns
    /\ props # comp[i].props
    /\ StartRun(i, [comp[i] EXCEPT !.props = props], Cleanup(runs, comp[i]))
    /\ UNCHANGED <<registryVars, classifierVars, sceneVars, colorizerVars, interactionVars, resolverVars, paletteVars, storeVars>>

\* The continuation of the oldest awaiting run, once the promise has settled:
\* worldData = await geoJSONPromise; cachedGeoJSON = worldData; and the rest.
Resume ==
    /\ MicrotasksPending
    /\ LET r == CHOOSE q \in Awaiting : \A o \in Awaiting : q <= o
           run == runs[r]
           c == comp[run.inst]
           Put(e) == [comp EXCEPT ![run.inst] = e.comp]
       IN IF geoJSONPromise[1].state = "fulfilled"
          THEN LET worldData == geoJSONPromise[1].value
                   e == Continue(r, run, worldData[1], c)
               IN /\ cachedGeoJSON' = worldData
                  /\ runs' = [runs EXCEPT ![r] = Ended(run, e, worldData)]
                  /\ comp' = Put(e)
          ELSE LET e == Catch(run, c)
               IN /\ runs' = [runs EXCEPT ![r].status = e.status]
                  /\ comp' = Put(e)
                  /\ UNCHANGED cachedGeoJSON
    /\ UNCHANGED <<geoJSONPromise, fetchLog>>
    /\ UNCHANGED <<registryVars, classifierVars, sceneVars, colorizerVars, interactionVars, resolverVars, paletteVars, storeVars>>

Init == LoaderInit

Next ==
    \/ \E i \in Instances, props \in PropsChoices : Mount(i, props)
    \/ \E i \in Instances, props \in PropsChoices : ChangeProps(i, props)
    \/ \E i \in Instances : Unmount(i)
    \/ \E response \in Responses : FetchSettle(response)
    \/ Resume

Spec == Init /\ [][Next]_vars

----------------------------------------------------------------------------
(* Properties of the loader.                                                *)

PromiseRejected == geoJSONPromise # Nothing /\ geoJSONPromise[1].state = "rejected"

\* C1: a failed fetch is not cached: every load that starts after the fetch
\* was rejected issues a fetch of its own.
FailureNotCached ==
    [][(PromiseRejected /\ Len(runs') > Len(runs)) => Len(fetchLog') > Len(fetchLog)]_vars

Received == {r \in 1..Len(runs) : runs[r].worldData # Nothing}

\* C2: at most one fetch is ever issued; every awaiting run awaits that one
\* promise, and every run that obtained a dataset obtained the body of that
\* one fetch, so all runs hold the same feature collection.
SingleFetch ==
    /\ Len(fetchLog) <= 1
    /\ Awaiting # {} => geoJSONPromise # Nothing /\ Len(fetchLog) = 1
    /\ \A r \in Received :
          /\ Len(fetchLog) = 1 /\ fetchLog[1] # Nothing
          /\ runs[r].worldData = Some(fetchLog[1][1].body)

\* Two runs of different component instances joined the pending fetch and
\* both ended up holding its feature collection.
SharedFetchReached ==
    /\ Len(fetchLog) = 1
    /\ \E r1 \in Received, r2 \in Received :
          /\ runs[r1].inst # runs[r2].inst
          /\ runs[r1].status = "published" /\ runs[r2].status = "published"
          /\ runs[r1].worldData = runs[r2].worldData

\* C3: the cache is filled only by a fetch that succeeded: the reply had a
\* success status and a body that parses.
CacheOnlyOnSuccess ==
    cachedGeoJSON # Nothing =>
        \E k \in 1..Len(fetchLog) :
            /\ fetchLog[k] # Nothing
            /\ ~fetchLog[k][1].networkError
            /\ fetchLog[k][1].ok /\ fetchLog[k][1].parsable
            /\ cachedGeoJSON = Some(fetchLog[k][1].body)

\* Mounted components whose current run ended in the catch block.
FailedLoads ==
    {i \in Instances : comp[i].mounted /\ runs[comp[i].effect].status = "failed"}

\* C11: a component whose load failed on the fetch renders something other
\* than what it renders while the load is in progress.
FailureDistinguishable ==
    \A i \in FailedLoads :
        Render(comp[i]) # Render([comp[i] EXCEPT !.isLoading = TRUE])

\* C4: the dot list a mounted component holds was generated by the run that
\* was started with its current width, height and spacing.
PublishedDotsCurrent ==
    \A i \in Instances :
        (comp[i].mounted /\ comp[i].dots # <<>>) =>
            runs[comp[i].dotsRun].props = comp[i].props

\* C17: every dot a run generated lies on the grid of the run's spacing and
\* inside the run's raster: x and y are multiples of dotSpacing with
\* 0 <= x < width and 0 <= y < height.
DotsOnGrid ==
    \A i \in Instances :
        \A k \in 1..Len(comp[i].dots) :
            LET dot == comp[i].dots[k]
                props == runs[comp[i].dotsRun].props
            IN /\ 0 <= dot.x /\ dot.x < props.width
               /\ 0 <= dot.y /\ dot.y < props.height
               /\ dot.x % props.dotSpacing = 0
               /\ dot.y % props.dotSpacing = 0

\* A run published a dot in the last grid column and one in the last grid
\* row of its raster.
LastColumnReached ==
    \E i \in Instances :
        /\ comp[i].dots # <<>>
        /\ LET props == runs[comp[i].dotsRun].props
           IN /\ \E k \in 1..Len(comp[i].dots) :
                    comp[i].dots[k].x + props.dotSpacing >= props.width
              /\ \E k \in 1..Len(comp[i].dots) :
                    comp[i].dots[k].y + props.dotSpacing >= props.height

Generated == {r \in 1..Len(runs) : runs[r].status = "published"}

\* The x and the y coordinates of the dots of one feature in a run.
GroupXs(r, countryId) ==
    {runs[r].dots[k].x : k \in {j \in 1..Len(runs[r].dots) :
                                   runs[r].dots[j].countryId = countryId}}
GroupYs(r, countryId) ==
    {runs[r].dots[k].y : k \in {j \in 1..Len(runs[r].dots) :
                                   runs[r].dots[j].countryId = countryId}}

\* min <= num / den <= max for every min and max of the set.
Within(average, values) ==
    \A v \in values :
        /\ (\A o \in values : v <= o) => v * average.den <= average.num
        /\ (\A o \in values : v >= o) => average.num <= v * average.den

\* C19: after a run generated its dots, a feature has a centroid exactly
\* when the run pushed at least one dot for it, and the centroid lies within
\* the bounding box of those dots.
CentroidOfOwnDots ==
    \A r \in Generated :
        \A countryId \in 1..Len(runs[r].centroids) :
            /\ runs[r].centroids[countryId] # Nothing <=> GroupXs(r, countryId) # {}
            /\ runs[r].centroids[countryId] # Nothing =>
                  /\ runs[r].centroids[countryId][1][1].den > 0
                  /\ Within(runs[r].centroids[countryId][1][1], GroupXs(r, countryId))
                  /\ Within(runs[r].centroids[countryId][1][2], GroupYs(r, countryId))

\* One run left a feature without dots and without centroid, and one run
\* gave a feature dots in two columns and a centroid between them.
CentroidReached ==
    /\ \E r \in Generated :
          \E countryId \in 1..Len(runs[r].centroids) :
              runs[r].centroids[countryId] = Nothing
    /\ \E r \in Generated :
          \E countryId \in 1..Len(runs[r].centroids) :
              /\ Cardinality(GroupXs(r, countryId)) > 1
              /\ runs[r].centroids[countryId] # Nothing

\* The isMounted guard: the continuation of a run whose effect was cleaned
\* up changes no component state.
SupersededRunSilent ==
    [][(MicrotasksPending /\ \A r \in Awaiting : ~runs[r].isMounted) => comp' = comp]_vars

\* C10: a run that obtained a feature collection never ends in the catch
\* block: a feature that cannot be processed costs only its own dots.
FailureStaysLocal ==
    \A r \in Received :
        "features" \in DOMAIN runs[r].worldData[1] => runs[r].status # "threw"

----------------------------------------------------------------------------
(* Properties of the color registry.                                        *)

AssignedColor(id) == rgbMatch(idToColor(id))

\* C5: in a dataset of up to 300 features, any two assigned colors are more
\* than twice the tolerance apart in Manhattan distance.
ColorsSeparated ==
    countryCount <= 300 =>
        \A i \in 1..countryCount, j \in 1..countryCount :
            i < j => Manhattan(AssignedColor(i), AssignedColor(j)) > 2 * Tolerance

\* C6: looking up the key of a feature's color in the registry gives that
\* feature's id back, for every feature of the dataset.
RegistryRoundTrip ==
    \A id \in 1..countryCount :
        colorToId(AssignedColor(id)[1], AssignedColor(id)[2], AssignedColor(id)[3],
                  colorToIdMap) = id

----------------------------------------------------------------------------
(* Properties of the classifier.                                            *)

\* The in-bounds samples around the classified point that cast a vote.
ValidSamples ==
    {i \in SampledIndexes(sample.x, sample.y, SampleSide, SampleSide) :
        SampleVote(sample.pixels[i], BuildColorMap(SampleFeatures)) # null}

\* C7: with fewer than 2 valid samples the classifier answers null.
MinimumSamples ==
    (detected.done /\ Cardinality(ValidSamples) < 2) => detected.id = null

BorderPixels ==
    {OpaquePixel(BorderColor(1)), OpaquePixel(BorderColor(2)), BlendPixel}

\* C9: a point whose samples all show one of two bordering features or
\* their blend is attributed to one of the two.
BorderResolves ==
    (/\ detected.done
     /\ \A i \in SampledIndexes(sample.x, sample.y, SampleSide, SampleSide) :
           sample.pixels[i] \in BorderPixels)
        => detected.id \in {BorderPair[1], BorderPair[2]}

----------------------------------------------------------------------------
(* Properties of the generator on the synthetic scene.                      *)

DotsOf(id) == {k \in 1..Len(generatedDots.dots) : generatedDots.dots[k].countryId = id}
Area(g) == (g.x1 - g.x0) * (g.y1 - g.y0)

\* C8: each square gets exactly area / spacing^2 dots, and no dot lies
\* outside both squares.
SceneExact ==
    generatedDots.done =>
        /\ \A id \in 1..Len(scene) :
              Cardinality(DotsOf(id)) * SceneRaster.dotSpacing * SceneRaster.dotSpacing
                  = Area(scene[id])
        /\ \A k \in 1..Len(generatedDots.dots) :
              \E id \in 1..Len(scene) :
                  InsideRect(scene[id], generatedDots.dots[k].x, generatedDots.dots[k].y)


----------------------------------------------------------------------------
(* Properties of the colorizer.                                             *)

\* The dataset of the category the call in progress asked about.
Asked == intensity[1]
AskedData ==
    IF Asked.category \in DOMAIN dynamicSpeciesCount
    THEN dynamicSpeciesCount[Asked.category] ELSE <<>>
AskedUpper == toUpperCase(Asked.countryCode)

StoredZero ==
    /\ Asked.countryCode \in DOMAIN AskedData
    /\ AskedData[Asked.countryCode] = 0

\* The upper-case form of the code asked about is stored with a value that is not 0.
UpperStoredPositive == AskedUpper \in DOMAIN AskedData /\ AskedData[AskedUpper] # 0

IsNoData(object) == object.color = Nothing /\ ~object.hasData

\* C13 as stated: a call for a code that is stored with the value 0 returns
\* no-data (no color, hasData false).
ZeroIsNoData ==
    (intensity # NoCall /\ StoredZero) => IsNoData(Asked.returned)

\* C13, amended: a call for a code that is stored with the value 0 returns
\* no-data unless the upper-case form of the code is stored with a value
\* that is not 0.
ZeroIsNoDataUnlessUpper ==
    (intensity # NoCall /\ StoredZero /\ ~UpperStoredPositive) =>
        /\ IsNoData(Asked.returned)
        /\ ~Asked.returned.loading /\ ~Asked.returned.notInCache

\* A call for a code stored with 0, in a dataset that also has a positive
\* count, returned no-data.
ZeroAmongPositive ==
    /\ intensity # NoCall /\ StoredZero /\ ~UpperStoredPositive
    /\ \E k \in DOMAIN AskedData : AskedData[k] > 0
    /\ IsNoData(Asked.returned)

\* The dataset the call asked about has entries but none under the code.
Unlisted == DOMAIN AskedData # {} /\ Asked.countryCode \notin DOMAIN AskedData

\* The present-but-unlisted result: the second-lightest color, hasData true.
IsUnlisted(object, category) ==
    /\ object.color = Some(categoryThemes[category][2])
    /\ object.hasData /\ object.notInCache /\ ~object.loading

AllPositive == DOMAIN AskedData # {} /\ \A k \in DOMAIN AskedData : AskedData[k] > 0

\* The position in the palette of the color a call returned.
BucketOf(object, category) ==
    CHOOSE i \in 0..4 : At(categoryThemes[category], i) = object.color[1]
BucketOfCode(code) ==
    BucketOf(getColorIntensity(dynamicSpeciesCount, Asked.category, code).returned,
             Asked.category)

\* The count a dataset of positive counts holds for a code: the one under
\* its upper-case form if there is one, else the one under the code.
Held(code) ==
    IF toUpperCase(code) \in DOMAIN AskedData THEN AskedData[toUpperCase(code)]
    ELSE AskedData[code]

\* C15 as stated: in a dataset of positive counts, a listed code with a
\* stored count not above that of another listed code gets a bucket not
\* above the other's.
MonotoneInStored ==
    (intensity # NoCall /\ AllPositive /\ Asked.countryCode \in DOMAIN AskedData) =>
        \A other \in DOMAIN AskedData :
            /\ AskedData[other] <= AskedData[Asked.countryCode] =>
                  BucketOfCode(other) <= BucketOf(Asked.returned, Asked.category)
            /\ AskedData[other] >= AskedData[Asked.countryCode] =>
                  BucketOfCode(other) >= BucketOf(Asked.returned, Asked.category)

\* C15, amended: in a dataset of positive counts, the bucket is monotone in
\* the count the dataset holds for a code under its upper-case form or, if
\* that form is not stored, under the code itself.
MonotoneInHeld ==
    (intensity # NoCall /\ AllPositive /\ Asked.countryCode \in DOMAIN AskedData) =>
        \A other \in DOMAIN AskedData :
            /\ Held(other) <= Held(Asked.countryCode) =>
                  BucketOfCode(other) <= BucketOf(Asked.returned, Asked.category)
            /\ Held(other) >= Held(Asked.countryCode) =>
                  BucketOfCode(other) >= BucketOf(Asked.returned, Asked.category)

\* A call for an upper-case code in a dataset of three positive counts
\* returned a bucket strictly between the lightest and the darkest, and
\* another code with a higher count has a higher bucket.
MiddleBucketReached ==
    /\ intensity # NoCall /\ AllPositive
    /\ DOMAIN AskedData = StoredCodes
    /\ Asked.countryCode = AskedUpper /\ Asked.countryCode \in DOMAIN AskedData
    /\ BucketOf(Asked.returned, Asked.category) \in 1..3
    /\ \E other \in DOMAIN AskedData :
          /\ AskedData[other] > AskedData[Asked.countryCode]
          /\ BucketOfCode(other) > BucketOf(Asked.returned, Asked.category)

PositiveCounts == {AskedData[k] : k \in DOMAIN AskedData} \ {0}

\* C16: a call divides only by a difference of logarithms that is not 0,
\* and it divides only when the least and the largest positive count of the
\* dataset differ; when they are equal and the count found is positive, the
\* call returns the middle color without dividing.
DividesOnlyBySpread ==
    intensity # NoCall =>
        /\ Asked.divisor # Nothing =>
              /\ ~IsZero(Asked.divisor[1])
              /\ PositiveCounts # {} /\ Least(PositiveCounts) # Max(PositiveCounts)
        /\ (/\ PositiveCounts # {} /\ Least(PositiveCounts) = Max(PositiveCounts)
            /\ Asked.returned.hasData /\ ~Asked.returned.notInCache) =>
              /\ Asked.divisor = Nothing
              /\ Asked.returned.color = Some(categoryThemes[Asked.category][3])
        /\ PositiveCounts = {} => Asked.divisor = Nothing

\* A call on a dataset whose positive counts are all equal, next to a zero
\* count, returned the middle color for a positive count without dividing.
FlatDatasetReached ==
    /\ intensity # NoCall
    /\ Cardinality(PositiveCounts) = 1
    /\ \E k \in DOMAIN AskedData : AskedData[k] = 0
    /\ Asked.countryCode \in DOMAIN AskedData /\ AskedData[Asked.countryCode] > 0
    /\ Asked.divisor = Nothing
    /\ Asked.returned.color = Some(categoryThemes[Asked.category][3])

----------------------------------------------------------------------------
(* Properties of the rendered map.                                          *)

\* C20: onCountryClick is never called for a dot whose code is empty.
NoClickWithoutCode ==
    \A j \in 1..Len(clicks) : clicks[j].code # <<>>

----------------------------------------------------------------------------
(* The rendered map under a changing filteredCountries.                     *)

\* C21: a render with another filteredCountries does not run the effect
\* again and leaves the dot list as it was: every dot keeps its x, y,
\* countryId, countryCode, countryName and countryClass.
FilterLeavesDots ==
    [][rendered'[1].filteredCountries # rendered[1].filteredCountries
         => /\ rendered'[1].dots = rendered[1].dots
            /\ rendered'[1].effects = rendered[1].effects
            /\ rendered'[1].projection = rendered[1].projection]_vars

\* A country was hovered while it was shown, and the filter that came after
\* greys it out: its dots are the same, their cursor is not.
FilterChangedView ==
    /\ rendered[1].hoveredCountry # Nothing
    /\ rendered[1].effects = 1
    /\ \E k \in 1..Len(rendered[1].dots) :
          /\ Some(rendered[1].dots[k].countryCode) = rendered[1].hoveredCountry
          /\ isFiltered(rendered[1].filteredCountries, rendered[1].dots[k])
          /\ DotView(rendered[1], dynamicSpeciesCount, rendered[1].dots[k]).cursor = "default"

\* The code and the filter of the last step, when the step was the click of
\* a dot that reached onCountryClick or a hover that took effect.
Last(s) == s[Len(s)]

\* C24: while filteredCountries is an array, a hover takes effect and a click
\* reaches the host only for a dot whose upper-cased code is in the array, so
\* never under an empty array; under null every dot is interactive.
OnlyListedInteractive ==
    [][/\ (rendered[1].filteredCountries # Nothing /\ clicks' # clicks)
            => includes(rendered[1].filteredCountries[1],
                        toUpperCase(Last(clicks').code))
       /\ (/\ rendered[1].filteredCountries # Nothing
           /\ rendered'[1].filteredCountries = rendered[1].filteredCountries
           /\ rendered'[1].hoveredCountry # Nothing
           /\ rendered'[1].hoveredCountry # rendered[1].hoveredCountry)
            => includes(rendered[1].filteredCountries[1],
                        toUpperCase(rendered'[1].hoveredCountry[1]))
       /\ rendered[1].filteredCountries = Nothing
            => \A k \in 1..Len(rendered[1].dots) :
                  DotView(rendered[1], dynamicSpeciesCount,
                          rendered[1].dots[k]).cursor = "pointer"]_vars

\* The color string the colorizer assigns: color of the object it returns.
AssignedString(counts, category, code) ==
    getColorIntensity(counts, category, toUpperCase(code)).returned.color

\* C25: the fill of every dot is a string: highlightColor for a dot of the
\* hovered code, '#e5e7eb' for a filtered one, the color string of the
\* colorizer under a category and a non-empty code, dotColor otherwise.
FillIsColorString ==
    \A k \in 1..Len(rendered[1].dots) :
       LET dot == rendered[1].dots[k]
           given == DotView(rendered[1], dynamicSpeciesCount, dot).fill
       IN /\ given.type = "string"
          /\ IF rendered[1].hoveredCountry = Some(dot.countryCode)
             THEN given.value = highlightColor
             ELSE IF isFiltered(rendered[1].filteredCountries, dot)
             THEN given.value = "#e5e7eb"
             ELSE IF rendered[1].category # Nothing /\ dot.countryCode # <<>>
             THEN Some(given.value) =
                    AssignedString(dynamicSpeciesCount, rendered[1].category[1],
                                   dot.countryCode)
             ELSE given.value = dotColor

----------------------------------------------------------------------------
(* The code of a feature in the feature table.                              *)

IsLetter(c) == \E i \in 1..26 : LowerCase[i] = c \/ UpperCase[i] = c
IsAlpha2(code) == Len(code) = 2 /\ \A i \in 1..2 : IsLetter(code[i])

\* C22: the code stored for a feature is a 2-letter code or the empty
\* string: the entry of the name table for a listed name; otherwise the
\* lower-cased id, converted by the alpha-3 table when it has 3 letters;
\* and the empty string when this gives no 2-letter code.
CodeIsAlpha2OrEmpty ==
    entryCode # Nothing =>
       LET f == entryFeature[1]
           listed == HasName(f) /\ MapHas(countryNameToISO, f.properties.name)
           id == IF "id" \in DOMAIN f THEN toLowerCase(f.id) ELSE <<>>
           converted == IF Len(id) = 3 /\ MapHas(alpha3ToAlpha2, id)
                        THEN MapGet(alpha3ToAlpha2, id) ELSE id
       IN /\ IsAlpha2(entryCode[1]) \/ entryCode[1] = <<>>
          /\ listed => entryCode[1] = MapGet(countryNameToISO, f.properties.name)
          /\ (~listed /\ IsAlpha2(converted)) => entryCode[1] = converted
          /\ (~listed /\ ~IsAlpha2(converted)) => entryCode[1] = <<>>

\* C23: getColorIntensity matches the code ignoring case: every spelling of
\* the code asked for (upper, lower or mixed case) gets the same object,
\* whatever the stored value, 0 included.
CaseInsensitive ==
    intensity # NoCall =>
       \A code \in QueryCodes :
          toUpperCase(code) = AskedUpper
             => getColorIntensity(dynamicSpeciesCount, Asked.category, code).returned
                  = Asked.returned

----------------------------------------------------------------------------
(* The votes of the five samples, in sampling order.                        *)

\* The registry the classifier works with, and the color of a feature in it.
SampleRegistry == BuildColorMap(SampleFeatures)
RegisteredIds == {SampleRegistry[i][2] : i \in 1..Len(SampleRegistry)}
KeysOf(id) ==
    {<<parseInt(SampleRegistry[i][1][1]), parseInt(SampleRegistry[i][1][2]),
       parseInt(SampleRegistry[i][1][3])>> :
        i \in {j \in 1..Len(SampleRegistry) : SampleRegistry[j][2] = id}}

\* The j-th sample of sampleOffsets: inside the raster or not, and its pixel.
InBounds(j) ==
    /\ sample.x + sampleOffsets[j][1] >= 0 /\ sample.x + sampleOffsets[j][1] < SampleSide
    /\ sample.y + sampleOffsets[j][2] >= 0 /\ sample.y + sampleOffsets[j][2] < SampleSide
PixelAt(j) ==
    sample.pixels[(sample.y + sampleOffsets[j][2]) * SampleSide
                  + (sample.x + sampleOffsets[j][1])]

\* The feature the j-th sample votes for; null when it casts no vote.
VoteAt(j) ==
    IF InBounds(j) THEN SampleVote(PixelAt(j), SampleRegistry) ELSE null
VotesFor(id) == {j \in 1..Len(sampleOffsets) : VoteAt(j) = id}
Voted == {VoteAt(j) : j \in 1..Len(sampleOffsets)} \ {null}
FirstVote(id) == Least(VotesFor(id))

VotesAsRegistered ==
    detected.done =>
        /\ detected.id = null \/ detected.id \in RegisteredIds
        /\ \A j \in 1..Len(sampleOffsets) :
              IF ~InBounds(j) THEN VoteAt(j) = null
              ELSE LET px == PixelAt(j)
                       rgb == <<px[1], px[2], px[3]>>
                       distance == [id \in RegisteredIds |->
                                      Least({Manhattan(rgb, c) : c \in KeysOf(id)})]
                       vote == VoteAt(j)
                   IN IF px[4] < 200 THEN vote = null
                      ELSE IF \E id \in RegisteredIds : distance[id] = 0
                      THEN vote \in RegisteredIds /\ distance[vote] = 0
                      ELSE IF \E id \in RegisteredIds : distance[id] <= 12
                      THEN /\ vote \in RegisteredIds
                           /\ \A id \in RegisteredIds : distance[vote] <= distance[id]
                      ELSE vote = null

\* A sample at distance 12 of a registered color decided the answer, next to
\* a sample at distance 13 and one below the alpha threshold, which cast no vote.
NearVoteReached ==
    /\ detected.done
    /\ detected.id = BorderPair[1]
    /\ \A j \in 1..Len(sampleOffsets) :
          InBounds(j) /\ PixelAt(j) \in {NearPixel, FarPixel, FringePixel}
    /\ Cardinality(VotesFor(BorderPair[1])) = 1
    /\ \E j \in 1..Len(sampleOffsets) : PixelAt(j) = FarPixel
    /\ \E j \in 1..Len(sampleOffsets) : PixelAt(j) = FringePixel

----------------------------------------------------------------------------
(* The palette index on the log scale.                                      *)

\* C28: for a positive count of a dataset with minCount < maxCount, the
\* palette index is at least k exactly when
\* (count+1)^5 >= (minCount+1)^(5-k) * (maxCount+1)^k, for k = 1..4; the
\* least count gets the lightest color and the largest the darkest.
IndexByPowers ==
    bucketIndex # Nothing =>
       LET count == bucketCounts[1].count
           minCount == bucketCounts[1].minCount
           maxCount == bucketCounts[1].maxCount
       IN /\ \A k \in 1..4 :
                bucketIndex[1] >= k
                   <=> Pow(count + 1, 5)
                         >= Pow(minCount + 1, 5 - k) * Pow(maxCount + 1, k)
          /\ count = minCount => bucketIndex[1] = 0
          /\ count = maxCount => bucketIndex[1] = 4

----------------------------------------------------------------------------
(* The dataset as a function of the calls made.                             *)

\* The dataset of a category; {} for a category never stored.
Dataset(category) ==
    IF category \in DOMAIN dynamicSpeciesCount THEN dynamicSpeciesCount[category]
    ELSE <<>>

\* The calls after the last reset of the category that updated the code.
UpdatesOf(category, code) ==
    LET resets == {i \in 1..Len(calls) :
                     calls[i].kind = "reset" /\ calls[i].category = category}
        since == IF resets = {} THEN 0 ELSE Max(resets)
    IN {i \in (since + 1)..Len(calls) :
          /\ calls[i].kind = "update"
          /\ calls[i].category = category
          /\ code \in DOMAIN calls[i].countData}

\* C29: after any sequence of calls the dataset of each category holds
\* exactly the codes updated since the category's last reset, each with the
\* value of the latest such update; so an update of a category sets the
\* supplied codes, keeps its other codes and touches no other category, a
\* reset empties only its category, and getColorIntensity changes nothing.
LatestUpdateStored ==
    \A category \in Categories, code \in StoreCodes :
       IF UpdatesOf(category, code) = {}
       THEN code \notin DOMAIN Dataset(category)
       ELSE /\ code \in DOMAIN Dataset(category)
            /\ Dataset(category)[code]
                 = calls[Max(UpdatesOf(category, code))].countData[code]

\* Two updates of a category, the second with one code of the first and
\* another value, then a reset of the other category.
OverwrittenReached ==
    /\ Len(calls) = 3
    /\ calls[1].kind = "update" /\ DOMAIN calls[1].countData = StoreCodes
    /\ calls[2].kind = "update" /\ DOMAIN calls[2].countData = {<<"K", "R">>}
    /\ calls[2].category = calls[1].category
    /\ calls[2].countData[<<"K", "R">>] # calls[1].countData[<<"K", "R">>]
    /\ calls[3].kind = "reset" /\ calls[3].category # calls[1].category
    /\ Dataset(calls[1].category)[<<"U", "S">>] = calls[1].countData[<<"U", "S">>]

----------------------------------------------------------------------------
(* The projection a click inverts with.                                     *)

\* C30: while a component shows its dots, so that a dot can be clicked, the
\* projection in its state is the one the run that generated the dots built
\* from its width and height.
ProjectionOfDotsRun ==
    \A i \in Instances :
        (comp[i].mounted /\ Render(comp[i]) = "map") =>
            comp[i].projection
               = Some(fitSize(runs[comp[i].dotsRun].props.width,
                              runs[comp[i].dotsRun].props.height))

====
